---- MODULE Spec2Model ----
(***************************************************************************)
(* SmallVecMap (src/src/smallvecmap.rs): a map from u32 keys to values.    *)
(*                                                                         *)
(* Release build (cfg(not(debug_assertions))), "Dense+Indirection":        *)
(*   indexs  : Vec<u32>, addressed by key, each slot u32::null() or a      *)
(*             position into entries;                                      *)
(*   entries : SmallVec of (value, key) pairs, kept dense by swap_remove.  *)
(* Debug build (cfg(debug_assertions)), "Direct": entries is a             *)
(*   VecMap<(T, u32)> addressed by key.  VecMap (crate::vecmap) is not     *)
(*   part of smallvecmap.rs; it is modelled from its contract.             *)
(*                                                                         *)
(* Both builds are driven by the same operations in lockstep, next to a    *)
(* reference partial map (refmap).  Rust's 0-based positions are kept;     *)
(* At(s, i) reads position i of the 1-based TLA+ sequence s.               *)
(***************************************************************************)
EXTENDS Integers, Sequences, FiniteSets, TLC

\* ---------------------------------------------------------------- bounds
\* Keys passed to the mutating operations are 0..MaxKey.
MaxKey == 2
\* with_capacity(capacity) is called with capacity in 0..MaxCap.
MaxCap == 2
\* Lists handed to From hold at most MaxList pairs.
MaxList == 3
\* Width of the u32 key/position type in the model.  The program's width is
\* 32; TLC's integers are 32-bit signed, so the model keeps the type's
\* structure (truncating casts, the all-ones sentinel) at a smaller width.
\* Dense positions stay far below the sentinel, as they do in the program
\* for any container of fewer than 2^32 - 1 elements.
U32Bits == 12

Keys == 0..MaxKey
\* T is a type parameter: no operation of SmallVecMap reads, compares or
\* computes with a value, it only moves it.  Two distinguishable values are
\* enough to tell an old value from a new one and one key's from another's.
Vals == {0, 1}
U32Mod == 2 ^ U32Bits
\* Keys the read-only and removing operations are tried with: the keys that
\* can be live, the first key that never is, and the largest u32.
ProbeKeys == (0..(MaxKey + 1)) \cup {U32Mod - 1}

\* usize positions the index operator is tried with on a target whose usize
\* is wider than u32: the probe keys, and positions past the u32 range whose
\* low bits spell a key.
IndexProbes == ProbeKeys \cup {k + U32Mod : k \in Keys}

\* Builds that differ in usize arithmetic: a 64-bit target, a 32-bit target
\* with wrapping arithmetic (release default), a 32-bit target with
\* overflow checks switched on.
Builds == {"w64", "w32wrap", "w32check"}

\* ------------------------------------------------------------ primitives
\* Option<T>: None is <<>>, Some(x) is <<x>>.
None == <<>>
Some(x) == <<x>>

\* pi_null::Null for u32: the reserved value is u32::MAX.
u32_null == U32Mod - 1
is_null(i) == i = u32_null

\* `x as u32` from usize: truncation to the type's width.
as_u32(x) == x % U32Mod

\* s[i] for a 0-based position i.
At(s, i) == s[i + 1]
\* s with position i (0-based) set to x.
SetAt(s, i, x) == [s EXCEPT ![i + 1] = x]
\* s without its last element.
Front(s) == SubSeq(s, 1, Len(s) - 1)
Max(a, b) == IF a >= b THEN a ELSE b

\* A container value of the release build.
Container(ix, en, cp) == [indexs |-> ix, entries |-> en, cap |-> cp]

\* Outcome of one call: the container afterwards (at the point of the fault,
\* if it faulted), the returned Option, the place (dense position) a returned
\* reference points to, the fault ("none", "panic", "ub"), and the code path.
Res(c, ret, place, fault, branch) ==
    [c |-> c, ret |-> ret, place |-> place, fault |-> fault, branch |-> branch]

\* ----------------------------------------------- Vec<u32> capacity (std)
\* RawVec::grow_amortized: max(2 * cap, required, 4) for a 4-byte element.
grow_amortized(cp, n, additional) == Max(4, Max(2 * cp, n + additional))
\* Vec::reserve(additional): grows only if the spare room is too small.
vec_reserve(cp, n, additional) ==
    IF additional > cp - n THEN grow_amortized(cp, n, additional) ELSE cp
\* Vec::push: grows by one when full.
vec_push_cap(cp, n) ==
    IF n = cp THEN grow_amortized(cp, n, 1) ELSE cp

\* -------------------------------------------------- construction, sizes
\* SmallVecMap::with_capacity
with_capacity(cp0) == Container(<<>>, <<>>, cp0)
\* SmallVecMap::new
new == with_capacity(0)
\* SmallVecMap::capacity
capacity(c) == c.cap
\* SmallVecMap::len
len(c) == Len(c.entries)
\* SmallVecMap::is_empty
is_empty(c) == Len(c.entries) = 0
\* Mutant of clear: only entries is emptied, indexs is forgotten.
clear_keeps_indexs(c) == Container(c.indexs, <<>>, c.cap)

\* SmallVecMap::clear: both vectors are emptied, the allocation is kept.
clear(c) == Container(<<>>, <<>>, c.cap)

\* Mutant of from: the indirection counts positions from 1.
from_one_based(value) ==
    Container([idx \in 1..Len(value) |-> as_u32(idx)], value, Len(value))

\* From<Vec<(T, u32)>> (release build): indexs is 0, 1, ..., len - 1, pushed
\* into a Vec::with_capacity(len); entries is the list itself.
from(value) ==
    Container([idx \in 1..Len(value) |-> as_u32(idx - 1)], value, Len(value))

\* iter / iter_mut (release build): the slice iterator of entries, given by
\* the pairs it yields, in order.
iter(c) == c.entries
iter_mut(c) == c.entries

\* ------------------------------------------------------------ read access
\* SmallVecMap::get
get(c, index) ==
    IF index >= Len(c.indexs) THEN Res(c, None, None, "none", "range")
    ELSE LET i == At(c.indexs, index) IN
         IF is_null(i) THEN Res(c, None, None, "none", "null")
         ELSE IF i < Len(c.entries)
              THEN Res(c, Some(At(c.entries, i)[1]), Some(i), "none", "hit")
              ELSE Res(c, None, None, "panic", "entries-oob")

\* SmallVecMap::get_mut
get_mut(c, index) ==
    IF index >= Len(c.indexs) THEN Res(c, None, None, "none", "range")
    ELSE LET i == At(c.indexs, index) IN
         IF is_null(i) THEN Res(c, None, None, "none", "null")
         ELSE IF i < Len(c.entries)
              THEN Res(c, Some(At(c.entries, i)[1]), Some(i), "none", "hit")
              ELSE Res(c, None, None, "panic", "entries-oob")

\* SmallVecMap::contains
contains(c, index) ==
    IF index >= Len(c.indexs) THEN FALSE
    ELSE ~ is_null(At(c.indexs, index))

\* SmallVecMap::get_unchecked: &self.entries[self.indexs[index] as usize].0,
\* both subscripts bounds-checked.
get_unchecked(c, index) ==
    IF index >= Len(c.indexs) THEN Res(c, None, None, "panic", "indexs-oob")
    ELSE LET i == At(c.indexs, index) IN
         IF i >= Len(c.entries) THEN Res(c, None, None, "panic", "entries-oob")
         ELSE Res(c, Some(At(c.entries, i)[1]), Some(i), "none", "hit")

\* SmallVecMap::get_unchecked_mut
get_unchecked_mut(c, index) ==
    IF index >= Len(c.indexs) THEN Res(c, None, None, "panic", "indexs-oob")
    ELSE LET i == At(c.indexs, index) IN
         IF i >= Len(c.entries) THEN Res(c, None, None, "panic", "entries-oob")
         ELSE Res(c, Some(At(c.entries, i)[1]), Some(i), "none", "hit")

\* Index<usize>::index / IndexMut<usize>::index_mut: the usize position is
\* cast to u32 (`index as u32` keeps the low 32 bits) and handed to the
\* unchecked accessor.
Index_index(c, p) == get_unchecked(c, as_u32(p))
IndexMut_index_mut(c, p) == get_unchecked_mut(c, as_u32(p))

\* SmallVecMap::replace: std::mem::replace through get_unchecked_mut.
replace(c, index, val) ==
    LET r == get_unchecked_mut(c, index) IN
    IF r.fault # "none" THEN r
    ELSE LET i == r.place[1]
             old == At(c.entries, i)
         IN Res(Container(c.indexs, SetAt(c.entries, i, <<val, old[2]>>), c.cap),
                Some(old[1]), None, "none", "hit")

\* ---------------------------------------------------------------- insert
\* n copies of the sentinel: (0..n).map(|_| u32::null()).
nulls(n) == [j \in 1..n |-> u32_null]

\* Mutant of extend_and_push: the extension is one sentinel short
\* (`index - len` instead of `index - len + 1`).
extend_and_push_short(c, cp, index, val, branch) ==
    LET len0 == Len(c.indexs) IN
    IF index < len0 THEN Res(c, None, None, "panic", "sub-overflow")
    ELSE LET n == index - len0
             cap2 == vec_reserve(cp, len0, n)
             ix == c.indexs \o nulls(n)
         IN IF index >= Len(ix)
            THEN Res(Container(ix, c.entries, cap2), None, None, "panic", "indexs-oob")
            ELSE Res(Container(SetAt(ix, index, as_u32(Len(c.entries))),
                               Append(c.entries, <<val, index>>), cap2),
                     None, None, "none", branch)

\* Vec::extend by `index - len + 1` sentinels (usize arithmetic: a negative
\* difference is a fault), then indexs[index] = entries.len() as u32
\* (bounds-checked) and entries.push((val, index)).  cp is the capacity the
\* extension starts from.
extend_and_push(c, cp, index, val, branch) ==
    LET len0 == Len(c.indexs) IN
    IF index < len0 THEN Res(c, None, None, "panic", "sub-overflow")
    ELSE LET n == index - len0 + 1
             cap2 == vec_reserve(cp, len0, n)
             ix == c.indexs \o nulls(n)
         IN IF index >= Len(ix)
            THEN Res(Container(ix, c.entries, cap2), None, None, "panic", "indexs-oob")
            ELSE Res(Container(SetAt(ix, index, as_u32(Len(c.entries))),
                               Append(c.entries, <<val, index>>), cap2),
                     None, None, "none", branch)

\* The argument of reserve in the branch `index > capacity`:
\* index as usize - self.indexs.capacity().
reserve_request(c, index) == index - c.cap

\* insert, branch `index > capacity`: reserve(index - capacity), then extend.
insert_reserve(c, index, val) ==
    extend_and_push(c, vec_reserve(c.cap, Len(c.indexs), reserve_request(c, index)),
                    index, val, "reserve-extend")

\* insert, branch `index > len`: extend.
insert_extend(c, index, val) == extend_and_push(c, c.cap, index, val, "extend")

\* Mutant of insert_push: the new slot records dense position 0.
insert_push_first(c, index, val) ==
    Res(Container(Append(c.indexs, 0),
                  Append(c.entries, <<val, index>>),
                  vec_push_cap(c.cap, Len(c.indexs))),
        None, None, "none", "push")

\* insert, branch `index == len`: push on both vectors.
insert_push(c, index, val) ==
    Res(Container(Append(c.indexs, as_u32(Len(c.entries))),
                  Append(c.entries, <<val, index>>),
                  vec_push_cap(c.cap, Len(c.indexs))),
        None, None, "none", "push")

\* Mutant of insert_in_range: a filled slot records entries.len() after the
\* push instead of before it.
insert_in_range_stale(c, index, val) ==
    LET i == At(c.indexs, index) IN
    IF is_null(i)
    THEN Res(Container(SetAt(c.indexs, index, as_u32(Len(c.entries) + 1)),
                       Append(c.entries, <<val, index>>), c.cap),
             None, None, "none", "fill")
    ELSE LET old == At(c.entries, i) IN
         Res(Container(c.indexs, SetAt(c.entries, i, <<val, old[2]>>), c.cap),
             Some(old[1]), None, "none", "replace")

\* Mutant of insert_in_range: the live-slot case is missing, every insert
\* appends a new pair.
insert_in_range_push(c, index, val) ==
    Res(Container(SetAt(c.indexs, index, as_u32(Len(c.entries))),
                  Append(c.entries, <<val, index>>), c.cap),
        None, None, "none", "fill")

\* insert, branch `index < len`: the slot is read with get_unchecked_mut (no
\* bounds check); a sentinel slot is filled, a live one has its value
\* replaced in place through the bounds-checked entries[*i].
insert_in_range(c, index, val) ==
    IF index >= Len(c.indexs) THEN Res(c, None, None, "ub", "indexs-oob")
    ELSE LET i == At(c.indexs, index) IN
         IF is_null(i)
         THEN Res(Container(SetAt(c.indexs, index, as_u32(Len(c.entries))),
                            Append(c.entries, <<val, index>>), c.cap),
                  None, None, "none", "fill")
         ELSE IF i >= Len(c.entries)
              THEN Res(c, None, None, "panic", "entries-oob")
              ELSE LET old == At(c.entries, i) IN
                   Res(Container(c.indexs,
                                 SetAt(c.entries, i, <<val, old[2]>>), c.cap),
                       Some(old[1]), None, "none", "replace")

\* SmallVecMap::insert
insert(c, index, val) ==
    IF index > c.cap THEN insert_reserve(c, index, val)
    ELSE IF index > Len(c.indexs) THEN insert_extend(c, index, val)
    ELSE IF index = Len(c.indexs) THEN insert_push(c, index, val)
    ELSE insert_in_range(c, index, val)

\* ---------------------------------------------------------------- remove
\* Mutant of swap_remove: an order-preserving remove(i) that shifts the tail
\* down instead of moving the last pair.
swap_remove_shift(en, i) ==
    IF i >= Len(en) THEN [fault |-> "panic", entries |-> en, item |-> None]
    ELSE [fault |-> "none",
          entries |-> SubSeq(en, 1, i) \o SubSeq(en, i + 2, Len(en)),
          item |-> Some(At(en, i))]

\* Mutant of swap_remove: the pair handed back is the one that was moved,
\* not the one that was removed.
swap_remove_returns_moved(en, i) ==
    IF i >= Len(en) THEN [fault |-> "panic", entries |-> en, item |-> None]
    ELSE [fault |-> "none",
          entries |-> Front(SetAt(en, i, At(en, Len(en) - 1))),
          item |-> Some(At(en, Len(en) - 1))]

\* SmallVec::swap_remove(i): swap(len - 1, i) is bounds-checked, then pop.
swap_remove(en, i) ==
    IF i >= Len(en) THEN [fault |-> "panic", entries |-> en, item |-> None]
    ELSE [fault |-> "none",
          entries |-> Front(SetAt(en, i, At(en, Len(en) - 1))),
          item |-> Some(At(en, i))]

\* Mutant of repair: the moved pair's slot is not repaired.
repair_skipped(ix, sr, i, cp) ==
    IF sr.fault # "none"
    THEN Res(Container(ix, sr.entries, cp), None, None, "panic", "swap-oob")
    ELSE Res(Container(ix, sr.entries, cp), Some(sr.item[1][1]), None, "none", "swap")

\* Mutant of repair: the moved pair is looked up at the position it had
\* before swap_remove (the old last position) instead of at i.
repair_old_pos(ix, sr, i, cp) ==
    IF sr.fault # "none"
    THEN Res(Container(ix, sr.entries, cp), None, None, "panic", "swap-oob")
    ELSE Res(Container(ix, sr.entries, cp), None, None, "panic", "entries-oob")

\* The index repair after swap_remove: indexs[entries[i].1] = i, both
\* subscripts bounds-checked.  ix is indexs with the removed key's slot
\* already set to null, sr the outcome of swap_remove.
repair(ix, sr, i, cp) ==
    IF sr.fault # "none"
    THEN Res(Container(ix, sr.entries, cp), None, None, "panic", "swap-oob")
    ELSE IF i >= Len(sr.entries)
    THEN Res(Container(ix, sr.entries, cp), None, None, "panic", "entries-oob")
    ELSE LET moved == At(sr.entries, i)[2] IN
         IF moved >= Len(ix)
         THEN Res(Container(ix, sr.entries, cp), None, None, "panic", "indexs-oob")
         ELSE Res(Container(SetAt(ix, moved, as_u32(i)), sr.entries, cp),
                  Some(sr.item[1][1]), None, "none", "swap")

\* Mutant of remove: the last-position case pops without setting the slot
\* to the sentinel.
remove_keep_slot(c, index) ==
    IF index >= Len(c.indexs) THEN Res(c, None, None, "none", "range")
    ELSE LET i == At(c.indexs, index)
             ix == SetAt(c.indexs, index, u32_null)
         IN
         IF is_null(i) THEN Res(c, None, None, "none", "null")
         ELSE IF i + 1 = Len(c.entries)
         THEN Res(Container(c.indexs, Front(c.entries), c.cap),
                  Some(At(c.entries, i)[1]), None, "none", "pop")
         ELSE repair(ix, swap_remove(c.entries, i), i, c.cap)

\* Mutant of remove: the sentinel test is missing.
remove_no_null_check(c, index) ==
    IF index >= Len(c.indexs) THEN Res(c, None, None, "none", "range")
    ELSE LET i == At(c.indexs, index)
             ix == SetAt(c.indexs, index, u32_null)
         IN
         IF i + 1 = Len(c.entries)
         THEN Res(Container(ix, Front(c.entries), c.cap),
                  Some(At(c.entries, i)[1]), None, "none", "pop")
         ELSE repair(ix, swap_remove(c.entries, i), i, c.cap)

\* Mutant of remove: after the last-position pop, trailing sentinel slots
\* are trimmed from indexs.
remove_trims(c, index) ==
    IF index >= Len(c.indexs) THEN Res(c, None, None, "none", "range")
    ELSE LET i == At(c.indexs, index)
             ix == SetAt(c.indexs, index, u32_null)
         IN
         IF is_null(i) THEN Res(c, None, None, "none", "null")
         ELSE IF i + 1 = Len(c.entries)
         THEN Res(Container(IF index + 1 = Len(ix) THEN Front(ix) ELSE ix,
                            Front(c.entries), c.cap),
                  Some(At(c.entries, i)[1]), None, "none", "pop")
         ELSE repair(ix, swap_remove(c.entries, i), i, c.cap)

\* SmallVecMap::remove
remove(c, index) ==
    IF index >= Len(c.indexs) THEN Res(c, None, None, "none", "range")
    ELSE LET i == At(c.indexs, index)
             ix == SetAt(c.indexs, index, u32_null)
         IN
         IF is_null(i) THEN Res(c, None, None, "none", "null")
         ELSE IF i + 1 = Len(c.entries)
         THEN Res(Container(ix, Front(c.entries), c.cap),
                  Some(At(c.entries, i)[1]), None, "none", "pop")
         ELSE repair(ix, swap_remove(c.entries, i), i, c.cap)

\* `*i as usize + 1` in remove_unchecked, where *i may be the sentinel: the
\* sum depends on the width of usize and on overflow checking.  -1 stands
\* for the overflow panic.
usize_succ(i, build) ==
    CASE build = "w64" -> i + 1
      [] build = "w32wrap" -> (i + 1) % U32Mod
      [] OTHER -> IF i + 1 >= U32Mod THEN -1 ELSE i + 1

\* Mutant of remove_unchecked: absence is answered like remove does, with
\* no fault.
remove_unchecked_lenient(c, index, build) ==
    IF index >= Len(c.indexs) THEN Res(c, None, None, "none", "range")
    ELSE LET i == At(c.indexs, index)
             ix == SetAt(c.indexs, index, u32_null)
         IN
         IF is_null(i) THEN Res(c, None, None, "none", "null")
         ELSE IF i + 1 = Len(c.entries)
         THEN Res(Container(ix, Front(c.entries), c.cap),
                  Some(At(c.entries, i)[1]), None, "none", "pop")
         ELSE repair(ix, swap_remove(c.entries, i), i, c.cap)

\* Mutant of remove_unchecked: the last-position test compares *i with
\* entries.len() (off by one), so the last pair takes the swap path.
remove_unchecked_off_by_one(c, index, build) ==
    IF index >= Len(c.indexs) THEN Res(c, None, None, "panic", "indexs-oob")
    ELSE LET i == At(c.indexs, index)
             ix == SetAt(c.indexs, index, u32_null)
         IN
         IF i = Len(c.entries)
         THEN Res(Container(ix, Front(c.entries), c.cap),
                  Some(At(c.entries, Len(c.entries) - 1)[1]), None, "none", "pop")
         ELSE repair(ix, swap_remove(c.entries, i), i, c.cap)

\* SmallVecMap::remove_unchecked
remove_unchecked(c, index, build) ==
    IF index >= Len(c.indexs) THEN Res(c, None, None, "panic", "indexs-oob")
    ELSE LET i == At(c.indexs, index)
             next == usize_succ(i, build)
             ix == SetAt(c.indexs, index, u32_null)
         IN
         IF next = -1 THEN Res(c, None, None, "panic", "add-overflow")
         ELSE IF next = Len(c.entries)
         THEN IF Len(c.entries) = 0
              THEN Res(Container(ix, c.entries, c.cap), None, None, "panic", "pop-empty")
              ELSE Res(Container(ix, Front(c.entries), c.cap),
                       Some(At(c.entries, Len(c.entries) - 1)[1]), None, "none", "pop")
         ELSE repair(ix, swap_remove(c.entries, i), i, c.cap)

\* ------------------------------------------- Direct strategy (debug build)
\* VecMap<T>: a growable array of optional values addressed by position,
\* with the number of occupied slots; no compaction on removal.
VecMapOf(slots, n) == [slots |-> slots, len |-> n]
VRes(vm, ret, fault) == [c |-> vm, ret |-> ret, fault |-> fault]

vecmap_new == VecMapOf(<<>>, 0)
vecmap_len(vm) == vm.len
vecmap_is_empty(vm) == vm.len = 0
vecmap_clear(vm) == VecMapOf(<<>>, 0)
vecmap_contains(vm, index) ==
    index < Len(vm.slots) /\ At(vm.slots, index) # None
vecmap_get(vm, index) ==
    IF index < Len(vm.slots) THEN At(vm.slots, index) ELSE None
vecmap_insert(vm, index, item) ==
    LET grown == IF index >= Len(vm.slots)
                 THEN vm.slots \o [j \in 1..(index + 1 - Len(vm.slots)) |-> None]
                 ELSE vm.slots
        old == At(grown, index)
    IN VRes(VecMapOf(SetAt(grown, index, Some(item)),
                     IF old = None THEN vm.len + 1 ELSE vm.len),
            old, "none")
vecmap_remove(vm, index) ==
    IF ~ vecmap_contains(vm, index) THEN VRes(vm, None, "none")
    ELSE VRes(VecMapOf(SetAt(vm.slots, index, None), vm.len - 1),
              At(vm.slots, index), "none")
vecmap_get_unchecked(vm, index) ==
    IF ~ vecmap_contains(vm, index) THEN VRes(vm, None, "panic")
    ELSE VRes(vm, At(vm.slots, index), "none")
vecmap_remove_unchecked(vm, index) ==
    IF ~ vecmap_contains(vm, index) THEN VRes(vm, None, "panic")
    ELSE vecmap_remove(vm, index)

\* Option<(T, u32)>::map(|(v, _)| v)
map_val(o) == IF o = None THEN None ELSE Some(o[1][1])

\* VecMap::iter: one item per slot, None for an empty slot.
vecmap_iter(vm) == vm.slots

\* Mutant of VecMapIter_next: the first empty slot ends the iteration.
VecMapIter_next_stops(it) ==
    IF it = <<>> \/ Head(it) = None THEN [ret |-> None, rest |-> <<>>]
    ELSE [ret |-> Head(it), rest |-> Tail(it)]

\* VecMapIter::next: loop over the underlying iterator, return the first
\* occupied slot's pair, None once the slots are exhausted. `it` is the
\* sequence of slots not yet visited; rest is what remains after the call.
RECURSIVE VecMapIter_next(_)
VecMapIter_next(it) ==
    IF it = <<>> THEN [ret |-> None, rest |-> <<>>]
    ELSE IF Head(it) # None THEN [ret |-> Head(it), rest |-> Tail(it)]
    ELSE VecMapIter_next(Tail(it))

\* A complete iteration: the pairs yielded by calling next until None.
RECURSIVE VecMapIter_collect(_)
VecMapIter_collect(it) ==
    LET r == VecMapIter_next(it) IN
    IF r.ret = None THEN <<>>
    ELSE <<r.ret[1]>> \o VecMapIter_collect(r.rest)

\* The cfg(debug_assertions) bodies of SmallVecMap's methods.
debug_iter(vm) == vecmap_iter(vm)
debug_new == vecmap_new
debug_clear(vm) == vecmap_clear(vm)
\* From<Vec<(T, u32)>> (debug build): every pair is inserted at its key.
RECURSIVE debug_from_into(_, _)
debug_from_into(vm, value) ==
    IF value = <<>> THEN vm
    ELSE debug_from_into(vecmap_insert(vm, Head(value)[2], Head(value)).c,
                         Tail(value))
debug_from(value) == debug_from_into(vecmap_new, value)
debug_len(vm) == vecmap_len(vm)
debug_is_empty(vm) == vecmap_is_empty(vm)
debug_contains(vm, index) == vecmap_contains(vm, index)
debug_get(vm, index) == map_val(vecmap_get(vm, index))
debug_insert(vm, index, val) ==
    LET r == vecmap_insert(vm, index, <<val, index>>) IN
    VRes(r.c, map_val(r.ret), r.fault)
debug_remove(vm, index) ==
    LET r == vecmap_remove(vm, index) IN VRes(r.c, map_val(r.ret), r.fault)
debug_remove_unchecked(vm, index) ==
    LET r == vecmap_remove_unchecked(vm, index) IN
    VRes(r.c, map_val(r.ret), r.fault)
debug_replace(vm, index, val) ==
    LET r == vecmap_get_unchecked(vm, index) IN
    IF r.fault # "none" THEN VRes(vm, None, r.fault)
    ELSE VRes(VecMapOf(SetAt(vm.slots, index, Some(<<val, r.ret[1][2]>>)), vm.len),
              map_val(r.ret), "none")

\* ------------------------------------------------------------------ state
VARIABLES
    indexs,     \* release build: the indirection array
    entries,    \* release build: the dense (value, key) pairs
    cap,        \* release build: indexs.capacity()
    dentries,   \* debug build: the VecMap of (value, key) pairs
    refmap,     \* reference partial map: key -> None | Some(value)
    op,         \* the last call and what it returned
    fault,      \* "none", or the fault the last call ended in
    hiEver,     \* highest key ever inserted, -1 before the first insert
    hiSince     \* highest key inserted since the last clear, -1 if none

vars == <<indexs, entries, cap, dentries, refmap, op, fault, hiEver, hiSince>>

\* The shape of the state: the fields of struct SmallVecMap in both builds.
TypeOK ==
    /\ indexs \in Seq(0..(U32Mod - 1))
    /\ \A p \in 1..Len(entries) : entries[p] \in Vals \X Keys
    /\ cap \in Nat /\ Len(indexs) <= cap
    /\ dentries.len \in Nat
    /\ \A p \in 1..Len(dentries.slots) :
          dentries.slots[p] = None \/ dentries.slots[p][1] \in Vals \X Keys
    /\ fault \in {"none", "panic", "ub"}
    /\ hiEver \in -1..MaxKey /\ hiSince \in -1..hiEver

\* The release-build container of the current state.
Self == Container(indexs, entries, cap)

Call(name, key, val, ret, branch, dret) ==
    [name |-> name, key |-> key, val |-> val, ret |-> ret,
     branch |-> branch, dret |-> dret]

\* The reference map's answer for any key.
RefGet(k) == IF k \in Keys THEN refmap[k] ELSE None

Init ==
    \E cp0 \in 0..MaxCap :
        /\ indexs = with_capacity(cp0).indexs
        /\ entries = with_capacity(cp0).entries
        /\ cap = with_capacity(cp0).cap
        /\ dentries = debug_new
        /\ refmap = [k \in Keys |-> None]
        /\ op = Call("new", 0, 0, None, "new", None)
        /\ fault = "none"
        /\ hiEver = -1
        /\ hiSince = -1

\* The release build's state becomes r.c; a fault ends the program.
Store(r) ==
    /\ indexs' = r.c.indexs
    /\ entries' = r.c.entries
    /\ cap' = r.c.cap
    /\ fault' = r.fault

DoInsert(k, v) ==
    /\ fault = "none"
    /\ LET r == insert(Self, k, v)
           d == debug_insert(dentries, k, v)
       IN /\ Store(r)
          /\ dentries' = IF r.fault = "none" THEN d.c ELSE dentries
          /\ refmap' = IF r.fault = "none" THEN [refmap EXCEPT ![k] = Some(v)]
                       ELSE refmap
          /\ op' = Call("insert", k, v, r.ret, r.branch, d.ret)
          /\ hiEver' = IF r.fault = "none" THEN Max(hiEver, k) ELSE hiEver
          /\ hiSince' = IF r.fault = "none" THEN Max(hiSince, k) ELSE hiSince

DoRemove(k) ==
    /\ fault = "none"
    /\ LET r == remove(Self, k)
           d == debug_remove(dentries, k)
       IN /\ Store(r)
          /\ dentries' = IF r.fault = "none" THEN d.c ELSE dentries
          /\ refmap' = IF r.fault = "none" /\ k \in Keys
                       THEN [refmap EXCEPT ![k] = None] ELSE refmap
          /\ op' = Call("remove", k, 0, r.ret, r.branch, d.ret)
          /\ UNCHANGED <<hiEver, hiSince>>

DoRemoveUnchecked(k) ==
    /\ fault = "none"
    /\ \E build \in Builds :
       LET r == remove_unchecked(Self, k, build)
           d == debug_remove_unchecked(dentries, k)
       IN /\ Store(r)
          /\ dentries' = IF r.fault = "none" THEN d.c ELSE dentries
          /\ refmap' = IF r.fault = "none" /\ k \in Keys
                       THEN [refmap EXCEPT ![k] = None] ELSE refmap
          /\ op' = Call("remove_unchecked", k, 0, r.ret, r.branch, d.ret)
          /\ UNCHANGED <<hiEver, hiSince>>

DoReplace(k, v) ==
    /\ fault = "none"
    /\ LET r == replace(Self, k, v)
           d == debug_replace(dentries, k, v)
       IN /\ Store(r)
          /\ dentries' = IF r.fault = "none" THEN d.c ELSE dentries
          /\ refmap' = IF r.fault = "none" /\ k \in Keys
                       THEN [refmap EXCEPT ![k] = Some(v)] ELSE refmap
          /\ op' = Call("replace", k, v, r.ret, r.branch, d.ret)
          /\ UNCHANGED <<hiEver, hiSince>>

DoClear ==
    /\ fault = "none"
    /\ Store(Res(clear(Self), None, None, "none", "clear"))
    /\ dentries' = debug_clear(dentries)
    /\ refmap' = [k \in Keys |-> None]
    /\ op' = Call("clear", 0, 0, None, "clear", None)
    /\ hiSince' = -1
    /\ UNCHANGED hiEver

\* The read-only calls.  A call that returns leaves every container as it
\* was (op keeps describing the last mutating call); one that faults ends
\* the program and is recorded.
Read(name, k, r, dret) ==
    /\ fault = "none"
    /\ Store(r)
    /\ UNCHANGED <<dentries, refmap, hiEver, hiSince>>
    /\ op' = IF r.fault = "none" THEN op
             ELSE Call(name, k, 0, r.ret, r.branch, dret)

DoGet(k) == Read("get", k, get(Self, k), debug_get(dentries, k))
DoGetMut(k) == Read("get_mut", k, get_mut(Self, k), debug_get(dentries, k))
DoContains(k) ==
    Read("contains", k,
         Res(Self, IF contains(Self, k) THEN Some(1) ELSE None, None, "none", "contains"),
         None)
DoGetUnchecked(k) ==
    Read("get_unchecked", k, get_unchecked(Self, k), debug_get(dentries, k))
DoGetUncheckedMut(k) ==
    Read("get_unchecked_mut", k, get_unchecked_mut(Self, k), debug_get(dentries, k))

Next ==
    \/ \E k \in Keys, v \in Vals : DoInsert(k, v)
    \/ \E k \in ProbeKeys : DoRemove(k)
    \/ \E k \in ProbeKeys : DoRemoveUnchecked(k)
    \/ \E k \in ProbeKeys, v \in Vals : DoReplace(k, v)
    \/ DoClear
    \/ \E k \in ProbeKeys : DoGet(k)
    \/ \E k \in ProbeKeys : DoGetMut(k)
    \/ \E k \in ProbeKeys : DoContains(k)
    \/ \E k \in ProbeKeys : DoGetUnchecked(k)
    \/ \E k \in ProbeKeys : DoGetUncheckedMut(k)

Spec == Init /\ [][Next]_vars

\* ------------------------------------------------- construction from a list
\* The lists From is called with: up to MaxList (value, key) pairs with
\* pairwise distinct keys.
Lists ==
    {l \in UNION {[1..n -> Vals \X Keys] : n \in 0..MaxList} :
        \A i, j \in 1..Len(l) : i # j => l[i][2] # l[j][2]}
\* The highest key of a list, -1 for the empty list.
MaxKeyOf(l) ==
    IF l = <<>> THEN -1
    ELSE CHOOSE k \in {l[i][2] : i \in 1..Len(l)} :
            \A i \in 1..Len(l) : l[i][2] <= k
\* The reference map of a list with distinct keys.
RefOf(l) ==
    [k \in Keys |->
        IF \E i \in 1..Len(l) : l[i][2] = k
        THEN Some(l[CHOOSE i \in 1..Len(l) : l[i][2] = k][1])
        ELSE None]

\* The state after SmallVecMap::from(value), in both builds.
InitFrom ==
    \E value \in Lists :
        /\ indexs = from(value).indexs
        /\ entries = from(value).entries
        /\ cap = from(value).cap
        /\ dentries = debug_from(value)
        /\ refmap = RefOf(value)
        /\ op = Call("from", 0, value, None, "from", None)
        /\ fault = "none"
        /\ hiEver = MaxKeyOf(value)
        /\ hiSince = MaxKeyOf(value)

\* The container is as From left it: no mutating call has been made since.
Fresh == op.name = "from"
\* The first call of the checked tier on a container built by From.
NextFrom ==
    \/ \E k \in Keys, v \in Vals : Fresh /\ DoInsert(k, v)
    \/ \E k \in ProbeKeys : Fresh /\ DoRemove(k)
    \/ \E k \in ProbeKeys : Fresh /\ DoGet(k)
    \/ \E k \in ProbeKeys : Fresh /\ DoGetMut(k)
    \/ \E k \in ProbeKeys : Fresh /\ DoContains(k)

SpecFrom == InitFrom /\ [][NextFrom]_vars

\* ----------------------------------------------------------------- claims
\* The release-build container after a step.
Post == Container(indexs', entries', cap')
\* Keys the reference map holds a value for.
LiveKeys == {k \in Keys : refmap[k] # None}
\* A step of the named call on key k.
Called(name, k) == op'.name = name /\ op'.key = k

\* C1: after every step of any sequence of calls, for every key, get returns
\* the value most recently inserted at a live key and None otherwise, and
\* contains is true exactly for the live keys: get/contains agree with the
\* reference partial map driven by the same calls.
C1_GetAgreesWithReference ==
    \A k \in ProbeKeys :
        /\ get(Self, k).fault = "none"
        /\ get(Self, k).ret = RefGet(k)
        /\ contains(Self, k) = (RefGet(k) # None)

\* C1 witness: a live key was just overwritten with a different value while
\* another key, inserted earlier and removed since, lies inside indexs.
C1_Witness ==
    /\ op.name = "insert" /\ op.branch = "replace"
    /\ op.ret # None /\ op.ret # Some(op.val)
    /\ refmap[op.key] = Some(op.val)
    /\ \E j \in Keys : j < Len(indexs) /\ refmap[j] = None
    /\ Cardinality(LiveKeys) >= 2

\* C2: (1) every dense position p holds a pair whose key's slot is p, and
\* (2) every non-sentinel slot is a position inside entries.
C2_DenseIndirection ==
    /\ \A p \in 0..(Len(entries) - 1) :
          /\ At(entries, p)[2] < Len(indexs)
          /\ At(indexs, At(entries, p)[2]) = p
    /\ \A k \in 0..(Len(indexs) - 1) :
          ~ is_null(At(indexs, k)) => At(indexs, k) < Len(entries)

\* C2 witness: remove_unchecked on a present key has just swap-removed, and
\* entries and sentinel slots are both left.
C2_Witness ==
    /\ op.name = "remove_unchecked" /\ op.branch = "swap" /\ fault = "none"
    /\ Len(entries) >= 2
    /\ \E k \in 0..(Len(indexs) - 1) : is_null(At(indexs, k))

\* C3: remove(k) of a live key that is not at the last dense position leaves
\* the get result of every other key as it was, sets k's slot to the
\* sentinel, and changes exactly one other slot: that of the formerly last
\* pair's key, which now holds the vacated position.
C3_SwapRemoveFrame ==
    [][\A k \in Keys :
        (/\ Called("remove", k)
         /\ refmap[k] # None /\ contains(Self, k)
         /\ At(indexs, k) + 1 # Len(entries))
        => LET p == At(indexs, k)
               moved == At(entries, Len(entries) - 1)[2]
           IN /\ fault' = "none"
              /\ \A j \in ProbeKeys \ {k} :
                    /\ get(Post, j).fault = "none"
                    /\ get(Post, j).ret = get(Self, j).ret
              /\ Len(indexs') = Len(indexs)
              /\ At(indexs', k) = u32_null
              /\ {j \in 0..(Len(indexs) - 1) : At(indexs', j) # At(indexs, j)}
                     = {k, moved}
              /\ At(indexs', moved) = p
      ]_vars

\* C3 witness: a swap-remove has happened and two other keys are still live
\* (the moved one and one that kept its position).
C3_Witness ==
    /\ op.name = "remove" /\ op.branch = "swap" /\ op.ret # None
    /\ Len(entries) >= 2

\* C4: insert(k, v2) on a key holding v1 returns Some(v1); afterwards get(k)
\* is Some(v2), len() is unchanged, the dense pair of k keeps its key and its
\* position, and no indirection slot has changed.
C4_ReplaceSemantics ==
    [][\A k \in Keys :
        (Called("insert", k) /\ refmap[k] # None /\ contains(Self, k))
        => /\ fault' = "none"
           /\ op'.ret = refmap[k]
           /\ get(Post, k).ret = Some(op'.val)
           /\ len(Post) = len(Self)
           /\ indexs' = indexs
           /\ At(entries', At(indexs, k)) = <<op'.val, k>>
           /\ At(entries, At(indexs, k))[2] = k
      ]_vars

\* C4 witness: an insert has replaced a value by a different one.
C4_Witness ==
    /\ op.name = "insert" /\ op.ret # None /\ op.ret # Some(op.val)
    /\ get(Self, op.key).ret = Some(op.val)

\* C5: insert on a key that is not live returns None and adds one to len();
\* remove on a live key returns Some of the stored value, takes one from
\* len() and makes contains false; and in every state len() is the number of
\* live keys and is_empty() says whether there are none.
C5_ReturnsAndLength ==
    /\ [](/\ len(Self) = Cardinality(LiveKeys)
          /\ is_empty(Self) = (LiveKeys = {}))
    /\ [][\A k \in Keys :
            /\ (Called("insert", k) /\ refmap[k] = None)
               => /\ fault' = "none"
                  /\ op'.ret = None
                  /\ len(Post) = len(Self) + 1
            /\ (Called("remove", k) /\ refmap[k] # None)
               => /\ fault' = "none"
                  /\ op'.ret = refmap[k]
                  /\ op'.ret = get(Self, k).ret
                  /\ len(Post) = len(Self) - 1
                  /\ ~ contains(Post, k)
        ]_vars

\* C5 witness: a remove has returned a value and left other keys live, one
\* of them holding a different value.
C5_Witness ==
    /\ op.name = "remove" /\ op.ret # None
    /\ LiveKeys # {} /\ ~ is_empty(Self)
    /\ \E j \in LiveKeys : refmap[j] # op.ret

\* C6: remove(k) on a key that is not live (beyond indexs, or a sentinel
\* slot) returns None and changes nothing: indexs (and its length), entries,
\* len() and every get result are as before, and calling it again gives the
\* same.
C6_RemoveAbsent ==
    [][\A k \in ProbeKeys :
        (Called("remove", k) /\ RefGet(k) = None)
        => /\ fault' = "none"
           /\ op'.ret = None
           /\ indexs' = indexs /\ entries' = entries /\ cap' = cap
           /\ len(Post) = len(Self)
           /\ \A j \in ProbeKeys : get(Post, j).ret = get(Self, j).ret
           /\ remove(Post, k).ret = None
           /\ remove(Post, k).fault = "none"
           /\ remove(Post, k).c = Post
      ]_vars

\* C6 witness: remove has returned None for a key whose slot is inside
\* indexs, with other keys live.
C6_Witness ==
    /\ op.name = "remove" /\ op.ret = None /\ op.branch = "null"
    /\ op.key < Len(indexs)
    /\ Len(entries) >= 1

\* The calls of the unchecked tier.
UncheckedTier == {"get_unchecked", "get_unchecked_mut", "remove_unchecked", "replace"}
\* Keys insert is tried with in every state.
InsertProbes == 0..(MaxKey + 1)

\* C7: no call of the checked tier faults: a fault is only ever the outcome
\* of an unchecked call, and in every state get, get_mut, contains, insert
\* and remove complete for every key without an out-of-bounds access.
C7_CheckedNeverFaults ==
    /\ fault # "none" => op.name \in UncheckedTier
    /\ \A k \in ProbeKeys :
          /\ get(Self, k).fault = "none"
          /\ get_mut(Self, k).fault = "none"
          /\ contains(Self, k) \in BOOLEAN
          /\ remove(Self, k).fault = "none"
    /\ \A k \in InsertProbes, v \in Vals : insert(Self, k, v).fault = "none"

\* C7 witness: a state with a sentinel slot below a live key and at least
\* two dense pairs, where remove of the first pair takes the repair path.
C7_Witness ==
    /\ fault = "none"
    /\ Len(entries) >= 2
    /\ \E k \in 0..(Len(indexs) - 1) : is_null(At(indexs, k))
    /\ remove(Self, At(entries, 0)[2]).branch = "swap"

C9_UncheckedPresent ==
    \A k \in LiveKeys :
        /\ get_unchecked(Self, k).fault = "none"
        /\ get_unchecked(Self, k).ret = get(Self, k).ret
        /\ get_unchecked(Self, k).place = get(Self, k).place
        /\ get_unchecked_mut(Self, k).fault = "none"
        /\ get_unchecked_mut(Self, k).ret = get(Self, k).ret
        /\ get_unchecked_mut(Self, k).place = get_mut(Self, k).place
        /\ \A build \in Builds :
              /\ remove_unchecked(Self, k, build).fault = "none"
              /\ remove_unchecked(Self, k, build).ret = remove(Self, k).ret
              /\ remove_unchecked(Self, k, build).c = remove(Self, k).c
        /\ \A v \in Vals :
              LET r == replace(Self, k, v) IN
              /\ r.fault = "none"
              /\ r.ret = refmap[k]
              /\ get(r.c, k).ret = Some(v)
              /\ len(r.c) = len(Self)
              /\ \A j \in ProbeKeys \ {k} : get(r.c, j).ret = get(Self, j).ret

\* C9 witness: replace has just returned an old value different from the new
\* one, and live keys remain both at the last and at an earlier dense
\* position.
C9_Witness ==
    /\ op.name = "replace" /\ fault = "none"
    /\ op.ret # None /\ op.ret # Some(op.val)
    /\ Cardinality(LiveKeys) >= 2

\* C10: driven by the same insert, remove and clear calls, the release build
\* (dense pairs plus indirection) and the debug build (directly indexed
\* optional pairs) return the same from every insert and remove, and after
\* every step give the same get, contains, len and is_empty for every key.
C10_StrategiesAgree ==
    /\ (fault = "none" /\ op.name \in {"insert", "remove"}) => op.ret = op.dret
    /\ \A k \in ProbeKeys :
          /\ get(Self, k).ret = debug_get(dentries, k)
          /\ contains(Self, k) = debug_contains(dentries, k)
    /\ len(Self) = debug_len(dentries)
    /\ is_empty(Self) = debug_is_empty(dentries)

\* C10 witness: after a swap-remove the dense order differs from key order:
\* the pair at dense position 0 is not the live pair with the smallest key.
C10_Witness ==
    /\ op.name = "remove" /\ op.branch = "swap" /\ op.ret # None
    /\ Len(entries) >= 2
    /\ At(entries, 0)[2] > At(entries, 1)[2]

\* C11: no insert, remove, remove_unchecked, replace, get, get_mut or
\* contains step makes indexs shorter; a step that does is a clear.
C11_IndexsLengthMonotone ==
    [][/\ Len(indexs') < Len(indexs) => op'.name = "clear"
       /\ op'.name # "clear" => Len(indexs') >= Len(indexs)
      ]_vars

\* C11 witness: the key of the highest slot has just been removed and the
\* slot is still there, holding the sentinel.
C11_Witness ==
    /\ op.name = "remove" /\ op.ret # None /\ fault = "none"
    /\ op.key + 1 = Len(indexs)
    /\ is_null(At(indexs, op.key))

\* C12 as stated: entries.len() == len() and, once a key has been inserted,
\* indexs.len() >= (highest key ever inserted) + 1, in every state reached
\* by insert, remove and clear.
C12_AsStated ==
    /\ Len(entries) = len(Self)
    /\ hiEver >= 0 => Len(indexs) >= hiEver + 1

\* C12 amended: entries.len() == len() and indexs.len() >= (highest key
\* inserted since the last clear, or since construction if none) + 1.
C12_LengthSinceClear ==
    /\ Len(entries) = len(Self)
    /\ hiSince >= 0 => Len(indexs) >= hiSince + 1

\* C12 witness: after a clear a lower key has been inserted, and an earlier
\* higher key was removed again, so indexs is longer than the live keys need.
C12_Witness ==
    /\ op.name = "remove" /\ op.ret # None /\ fault = "none"
    /\ hiEver > hiSince /\ hiSince >= 1
    /\ Len(indexs) = hiSince + 1
    /\ is_null(At(indexs, hiSince))

\* Invariants 1 and 2 of the data model, for any container value.
Inv12(c) ==
    /\ \A p \in 0..(Len(c.entries) - 1) :
          /\ At(c.entries, p)[2] < Len(c.indexs)
          /\ At(c.indexs, At(c.entries, p)[2]) = p
    /\ \A k \in 0..(Len(c.indexs) - 1) :
          ~ is_null(At(c.indexs, k)) => At(c.indexs, k) < Len(c.entries)

\* The mutating calls of the checked tier, as data.
CheckedCalls ==
    [name : {"insert"}, key : Keys, val : Vals]
        \cup [name : {"remove"}, key : ProbeKeys, val : {0}]
\* One such call on a container value.
Apply(c, o) ==
    IF o.name = "insert" THEN insert(c, o.key, o.val) ELSE remove(c, o.key)

\* What a caller can observe of two containers is the same.
SameObservations(a, b) ==
    /\ len(a) = len(b)
    /\ is_empty(a) = is_empty(b)
    /\ \A k \in ProbeKeys :
          /\ get(a, k).ret = get(b, k).ret
          /\ get(a, k).fault = get(b, k).fault
          /\ contains(a, k) = contains(b, k)

\* Length of the call sequences the two containers are compared over.
RunDepth == 3

\* Containers a and b answer every sequence of n checked calls alike, without
\* fault, and a keeps invariants 1 and 2 throughout.
RECURSIVE SameRuns(_, _, _)
SameRuns(a, b, n) ==
    /\ SameObservations(a, b)
    /\ Inv12(a)
    /\ n > 0 =>
         \A o \in CheckedCalls :
            LET ra == Apply(a, o)
                rb == Apply(b, o)
            IN /\ ra.fault = "none" /\ rb.fault = "none"
               /\ ra.ret = rb.ret
               /\ SameRuns(ra.c, rb.c, n - 1)

\* C13: after clear() len() is 0, is_empty() is true, contains is false and
\* get is None for every key, and capacity() is not smaller than before; the
\* cleared container then answers every sequence of insert / remove / get /
\* contains calls as a freshly created one does, keeping invariants 1 and 2.
C13_Clear ==
    /\ [][op'.name = "clear"
          => /\ fault' = "none"
             /\ len(Post) = 0 /\ is_empty(Post)
             /\ \A k \in ProbeKeys :
                   /\ ~ contains(Post, k)
                   /\ get(Post, k).ret = None /\ get(Post, k).fault = "none"
             /\ capacity(Post) >= capacity(Self)
         ]_vars
    /\ [](op.name = "clear" => SameRuns(Self, new, RunDepth))

\* C13 witness: clear has run on a container that had grown its allocation
\* and held the highest key.
C13_Witness ==
    /\ op.name = "clear" /\ fault = "none"
    /\ hiEver = MaxKey /\ cap >= 4
    /\ Len(indexs) = 0 /\ Len(entries) = 0

\* A list is dense and 0-based: the pair at position i has key i.
DenseZeroBased(l) == \A i \in 1..Len(l) : l[i][2] = i - 1

\* C14: for a dense 0-based list of n pairs, From (release build) gives
\* indexs = 0, 1, ..., n - 1 and entries = the list; invariants 1 and 2 hold,
\* len() = n, get(i) is the i-th value and contains(i) is true for i < n, and
\* contains(k) is false for k >= n.
C14_FromDenseList ==
    (op.name = "from" /\ DenseZeroBased(op.val))
    => LET n == Len(op.val) IN
       /\ indexs = [i \in 1..n |-> i - 1]
       /\ entries = op.val
       /\ Inv12(Self)
       /\ len(Self) = n
       /\ \A i \in 0..(n - 1) :
             /\ get(Self, i).ret = Some(op.val[i + 1][1])
             /\ get(Self, i).fault = "none"
             /\ contains(Self, i)
       /\ \A k \in ProbeKeys : k >= n => ~ contains(Self, k)

\* C14 witness: a container just built from a dense 0-based list of three
\* pairs that do not all hold the same value.
C14_Witness ==
    /\ op.name = "from" /\ DenseZeroBased(op.val)
    /\ Len(op.val) = 3
    /\ op.val[1][1] # op.val[3][1]
    /\ Len(entries) = 3

\* The pairs of a sequence ys are exactly one per live key, each agreeing
\* with the reference map.
OnePerLiveKey(ys) ==
    /\ {ys[i][2] : i \in 1..Len(ys)} = LiveKeys
    /\ \A i, j \in 1..Len(ys) : i # j => ys[i][2] # ys[j][2]
    /\ \A i \in 1..Len(ys) : refmap[ys[i][2]] = Some(ys[i][1])

C16_IndexAsStated ==
    fault = "none" =>
    \A p \in IndexProbes :
        LET live == p \in Keys /\ refmap[p] # None
            r == Index_index(Self, p)
            m == IndexMut_index_mut(Self, p)
        IN IF live
           THEN /\ r.fault = "none" /\ r.ret = refmap[p]
                /\ m.fault = "none" /\ m.ret = refmap[p]
           ELSE r.fault # "none" /\ m.fault # "none"

\* C17: when insert(k, v) is called with k >= the indirection length L, in
\* each of the branches k > capacity, L < k <= capacity and k = L, the call
\* does not fault (no subtraction underflows, no subscript is out of range),
\* the indirection length becomes k + 1, the new slots L..k-1 hold the
\* sentinel, slot k holds the previous entries.len(), the pair (v, k) is
\* appended to entries, and the slots below L are unchanged.
C17_InsertGrowth ==
    [][\A k \in Keys :
          (Called("insert", k) /\ k >= Len(indexs)) =>
          LET L == Len(indexs) IN
          /\ fault' = "none"
          /\ op'.ret = None
          /\ op'.branch = IF k > cap THEN "reserve-extend"
                          ELSE IF k > L THEN "extend" ELSE "push"
          /\ (k > cap => reserve_request(Self, k) >= 0)
          /\ k - L + 1 >= 1
          /\ Len(indexs') = k + 1
          /\ \A j \in L..(k - 1) : is_null(At(indexs', j))
          /\ At(indexs', k) = Len(entries)
          /\ entries' = Append(entries, <<op'.val, k>>)
          /\ \A j \in 0..(L - 1) : At(indexs', j) = At(indexs, j)
      ]_vars

\* C17 witness: an insert through the capacity-exceeding branch that added a
\* sentinel slot between a live slot and the new one.
C17_Witness ==
    /\ op.name = "insert" /\ op.branch = "reserve-extend" /\ fault = "none"
    /\ op.key = 2
    /\ Len(indexs) = 3
    /\ ~ is_null(indexs[1]) /\ is_null(indexs[2]) /\ indexs[3] = 1
    /\ entries[2] = <<op.val, 2>>

\* C18 (as stated): whenever insert(k, v) is called with k greater than the
\* capacity of indexs, the amount handed to reserve is at least
\* k + 1 - indexs.len(), the number of slots the extension then appends.
C18_ReserveAsStated ==
    [][\A k \in Keys :
          (Called("insert", k) /\ k > cap) =>
          reserve_request(Self, k) >= k + 1 - Len(indexs)
      ]_vars

\* Keys whose indirection slot is not the sentinel.
FilledSlots == {k \in 0..(Len(indexs) - 1) : ~ is_null(At(indexs, k))}

\* C19: in every state that has not faulted, the non-sentinel slots and the
\* dense entries are in bijection: there are as many non-sentinel slots as
\* entries, no two non-sentinel slots hold the same dense position, no two
\* entries carry the same key, and the entry a non-sentinel slot k refers to
\* carries key k.
C19_SlotEntryBijection ==
    fault = "none" =>
    /\ Cardinality(FilledSlots) = Len(entries)
    /\ \A k1, k2 \in FilledSlots :
          k1 # k2 => At(indexs, k1) # At(indexs, k2)
    /\ \A p, q \in 1..Len(entries) : p # q => entries[p][2] # entries[q][2]
    /\ \A k \in FilledSlots :
          /\ At(indexs, k) < Len(entries)
          /\ At(entries, At(indexs, k))[2] = k

\* C19 witness: after a swap-removal, two dense pairs remain, stored in the
\* opposite of key order, beside a sentinel slot.
C19_Witness ==
    /\ op.name = "remove" /\ op.branch = "swap" /\ fault = "none"
    /\ Len(entries) = 2
    /\ Cardinality(FilledSlots) = 2
    /\ Len(indexs) = 3
    /\ entries[1][2] = 2

\* C20 (as stated): for any list of (value, key) pairs with pairwise distinct
\* keys, the container From builds in the release build and the one it builds
\* in the debug build give the same get(k) and contains(k) for every key and
\* the same len(), and a following checked call returns the same result in
\* both and does not fault.
C20_FromAgreesAsStated ==
    /\ fault = "none"
    /\ op.name \in {"insert", "remove"} => op.ret = op.dret
    /\ \A k \in ProbeKeys :
          /\ get(Self, k).fault = "none"
          /\ get(Self, k).ret = debug_get(dentries, k)
          /\ contains(Self, k) = debug_contains(dentries, k)
    /\ len(Self) = debug_len(dentries)
====
